---- MODULE Spec2Model ----
(***************************************************************************)
(* Model of the stamps backend (src/server.js).                            *)
(*                                                                         *)
(* src/server.js holds two revisions of the server one after the other:    *)
(* lines 1-225 (no address normalisation, no local index, POST /reveal     *)
(* without ownership check) and lines 227-556 (toStakeAddress, local       *)
(* index, listPolicyUnits, POST /reveal with ownership check).  Both use   *)
(* the same db.json and variants.json.  Unless a name ends in V1, a        *)
(* definition models the second revision.                                  *)
(*                                                                         *)
(* Strings are sequences of one-character strings, so that startsWith,     *)
(* toUpperCase, regular expressions and bech32 are computed, not assumed.  *)
(***************************************************************************)
EXTENDS Integers, Sequences, FiniteSets, TLC

(***************************************************************************)
(* Characters and strings                                                  *)
(***************************************************************************)
HexValOf ==
  ("0" :> 0) @@ ("1" :> 1) @@ ("2" :> 2) @@ ("3" :> 3) @@ ("4" :> 4) @@
  ("5" :> 5) @@ ("6" :> 6) @@ ("7" :> 7) @@ ("8" :> 8) @@ ("9" :> 9) @@
  ("a" :> 10) @@ ("b" :> 11) @@ ("c" :> 12) @@ ("d" :> 13) @@ ("e" :> 14) @@
  ("f" :> 15) @@
  ("A" :> 10) @@ ("B" :> 11) @@ ("C" :> 12) @@ ("D" :> 13) @@ ("E" :> 14) @@
  ("F" :> 15)

HexDigit == <<"0","1","2","3","4","5","6","7","8","9","a","b","c","d","e","f">>

\* ASCII codes of the characters that occur in bech32 prefixes
OrdOf ==
  ("s" :> 115) @@ ("t" :> 116) @@ ("a" :> 97) @@ ("k" :> 107) @@
  ("e" :> 101) @@ ("d" :> 100) @@ ("r" :> 114) @@ ("_" :> 95)

StartsWith(s, p) == Len(s) >= Len(p) /\ SubSeq(s, 1, Len(p)) = p

\* const isHex = (s) => typeof s === 'string' && /^[0-9a-f]+$/i.test(s)
isHex(s) == Len(s) >= 1 /\ \A i \in 1..Len(s) : s[i] \in DOMAIN HexValOf

\* Buffer.from(s, 'hex') on a string of hex digits: one byte per complete
\* pair of digits, a trailing single digit is dropped
BufferFromHex(s) ==
  [i \in 1..(Len(s) \div 2) |-> 16 * HexValOf[s[2*i - 1]] + HexValOf[s[2*i]]]

\* the lower-case hex text of a byte sequence
HexOfBytes(bytes) ==
  [i \in 1..(2 * Len(bytes)) |->
     IF i % 2 = 1 THEN HexDigit[(bytes[(i + 1) \div 2] \div 16) + 1]
                  ELSE HexDigit[(bytes[i \div 2] % 16) + 1]]

(***************************************************************************)
(* bech32 (the library imported at src/server.js:236)                      *)
(***************************************************************************)
RECURSIVE Xor(_, _)
Xor(a, b) ==
  IF a = 0 THEN b
  ELSE IF b = 0 THEN a
  ELSE (((a % 2) + (b % 2)) % 2) + 2 * Xor(a \div 2, b \div 2)

Pow2(n) == 2^n

Bech32Alphabet ==
  <<"q","p","z","r","y","9","x","8","g","f","2","t","v","d","w","0",
    "s","3","j","n","5","4","k","h","c","e","6","m","u","a","7","l">>

\* generator constants of the bech32 checksum
Bech32Gen == <<996825010, 642813549, 513874426, 1027748829, 705979059>>

RECURSIVE GenMix(_, _, _)
GenMix(acc, b, i) ==
  IF i > 5 \/ acc < 0 THEN acc
  ELSE GenMix(IF (b \div Pow2(i - 1)) % 2 = 1 THEN Xor(acc, Bech32Gen[i]) ELSE acc,
              b, i + 1)

polymodStep(pre) == GenMix((pre % 33554432) * 32, pre \div 33554432, 1)

RECURSIVE PrefixHigh(_, _, _)
PrefixHigh(prefix, i, chk) ==
  IF i > Len(prefix) \/ chk < 0 THEN chk
  ELSE PrefixHigh(prefix, i + 1, Xor(polymodStep(chk), OrdOf[prefix[i]] \div 32))

RECURSIVE PrefixLow(_, _, _)
PrefixLow(prefix, i, chk) ==
  IF i > Len(prefix) \/ chk < 0 THEN chk
  ELSE PrefixLow(prefix, i + 1, Xor(polymodStep(chk), OrdOf[prefix[i]] % 32))

prefixChk(prefix) == PrefixLow(prefix, 1, polymodStep(PrefixHigh(prefix, 1, 1)))

RECURSIVE WordsChk(_, _, _)
WordsChk(words, i, chk) ==
  IF i > Len(words) \/ chk < 0 THEN chk
  ELSE WordsChk(words, i + 1, Xor(polymodStep(chk), words[i]))

RECURSIVE Steps(_, _)
Steps(chk, n) == IF n = 0 \/ chk < 0 THEN chk ELSE Steps(polymodStep(chk), n - 1)

Bech32Limit == 90

\* bech32.encode throws when prefix, separator, data and checksum exceed 90
Bech32TooLong(prefix, words) == Len(prefix) + 7 + Len(words) > Bech32Limit

Bech32Encode(prefix, words) ==
  LET chk == Xor(Steps(WordsChk(words, 1, prefixChk(prefix)), 6), 1)
  IN  prefix \o <<"1">>
        \o [i \in 1..Len(words) |-> Bech32Alphabet[words[i] + 1]]
        \o [i \in 1..6 |-> Bech32Alphabet[((chk \div Pow2((6 - i) * 5)) % 32) + 1]]

RECURSIVE Drain(_, _, _)
Drain(value, bits, out) ==
  IF bits >= 5 /\ value >= 0 /\ Len(out) >= 0
    THEN Drain(value % Pow2(bits - 5), bits - 5, Append(out, value \div Pow2(bits - 5)))
    ELSE <<value, bits, out>>

RECURSIVE ConvertUp(_, _, _, _, _)
ConvertUp(data, i, value, bits, out) ==
  IF i > Len(data) \/ value < 0 \/ Len(out) < 0
    THEN IF bits > 0 THEN Append(out, (value * Pow2(5 - bits)) % 32) ELSE out
    ELSE LET d == Drain(value * 256 + data[i], bits + 8, out)
         IN  ConvertUp(data, i + 1, d[1], d[2], d[3])

\* a regrouping that leaves out the last, partly filled word
toWordsUnpadded(bytes) ==
  SubSeq(ConvertUp(bytes, 1, 0, 0, <<>>), 1, (8 * Len(bytes)) \div 5)

\* bech32.toWords: regroup 8-bit bytes into 5-bit words, zero-padded
toWords(bytes) == ConvertUp(bytes, 1, 0, 0, <<>>)

(***************************************************************************)
(* Address normalisation                                                   *)
(***************************************************************************)
PfxStake     == <<"s","t","a","k","e">>
PfxStakeTest == <<"s","t","a","k","e","_","t","e","s","t">>
PfxAddr      == <<"a","d","d","r">>
PfxAddrTest  == <<"a","d","d","r","_","t","e","s","t">>
Stake1       == <<"s","t","a","k","e","1">>
Addr1        == <<"a","d","d","r","1">>

\* outcomes of an async function: a string, null, or a rejection
RetOk(v, n)  == [tag |-> "ok",    val |-> v,    calls |-> n]
RetNull(n)   == [tag |-> "null",  val |-> <<>>, calls |-> n]
RetThrow(n)  == [tag |-> "throw", val |-> <<>>, calls |-> n]

\* const info = await api.addresses(addr); return info?.stake_address || null;
\* addrs is the provider's table; an address it does not know is a 404, which
\* the client library raises as an error
ResolveStake(addr, addrs) ==
  IF addr \notin DOMAIN addrs THEN RetThrow(1)
  ELSE IF addrs[addr].tag = "throw" THEN RetThrow(1)
  ELSE IF addrs[addr].tag = "null" \/ addrs[addr].val = <<>> THEN RetNull(1)
  ELSE RetOk(addrs[addr].val, 1)

RewardType == 14
StakeKeyHashLen == 28

RetResolve(addr) == [tag |-> "resolve", val |-> addr, calls |-> 0]

\* toStakeAddress up to its provider call: the result, or the payment
\* address that api.addresses has to resolve
AddressForm(maybe, net) ==
  IF maybe = <<>> THEN RetNull(0)
  ELSE IF StartsWith(maybe, Stake1) THEN RetOk(maybe, 0)
  ELSE IF StartsWith(maybe, Addr1) THEN RetResolve(maybe)
  ELSE IF ~isHex(maybe) THEN RetNull(0)
  ELSE
    LET bytes == BufferFromHex(maybe) IN
    IF Len(bytes) = StakeKeyHashLen
      THEN LET header == RewardType * 16 + (net % 16)
               reward == <<header>> \o bytes
           IN  RetOk(Bech32Encode(IF net = 1 THEN PfxStake ELSE PfxStakeTest,
                                  toWords(reward)), 0)
    ELSE IF Len(bytes) >= StakeKeyHashLen + 1
      THEN LET type   == bytes[1] \div 16
               n      == bytes[1] % 16
               prefix == IF type = RewardType
                           THEN (IF n = 1 THEN PfxStake ELSE PfxStakeTest)
                           ELSE (IF n = 1 THEN PfxAddr  ELSE PfxAddrTest)
               words  == toWords(bytes)
           IN  IF Bech32TooLong(prefix, words) THEN RetThrow(0)
               ELSE LET bech == Bech32Encode(prefix, words) IN
                    IF StartsWith(bech, Stake1) THEN RetOk(bech, 0)
                    ELSE IF StartsWith(bech, Addr1) THEN RetResolve(bech)
                    ELSE RetNull(0)
    ELSE RetNull(0)

(***************************************************************************)
(* Identifiers used as inputs                                              *)
(***************************************************************************)
KeyHash(b) == [i \in 1..StakeKeyHashLen |-> (b * 37 + i * 11) % 256]
K1 == KeyHash(1)
K2 == KeyHash(2)

StakeMain(h) == Bech32Encode(PfxStake, toWords(<<225>> \o h))
StakeTest(h) == Bech32Encode(PfxStakeTest, toWords(<<224>> \o h))
\* enterprise payment address (type 6): header and payment key hash
PayMain(h)   == Bech32Encode(PfxAddr, toWords(<<97>> \o h))
PayTest(h)   == Bech32Encode(PfxAddrTest, toWords(<<96>> \o h))

SK1   == StakeMain(K1)
SK2   == StakeMain(K2)
STK1  == StakeTest(K1)
PK1   == PayMain(K1)
PK2   == PayMain(K2)
HexK1 == HexOfBytes(K1)
Junk  == <<"z">>

\* the form of the one hex identifier the requests of the model send, on
\* network 0 and on network 1, computed once
HexK1Forms == <<AddressForm(HexK1, 0), AddressForm(HexK1, 1)>>

toStakeAddress(maybe, net, addrs) ==
  LET form == IF maybe = HexK1 /\ net \in {0, 1}
                THEN HexK1Forms[net + 1] ELSE AddressForm(maybe, net)
  IN  IF form.tag = "resolve" THEN ResolveStake(form.val, addrs) ELSE form

(***************************************************************************)
(* Text helpers                                                            *)
(***************************************************************************)
LowerAlpha == <<"a","b","c","d","e","f","g","h","i","j","k","l","m",
                "n","o","p","q","r","s","t","u","v","w","x","y","z">>
UpperAlpha == <<"A","B","C","D","E","F","G","H","I","J","K","L","M",
                "N","O","P","Q","R","S","T","U","V","W","X","Y","Z">>
Digits == {"0","1","2","3","4","5","6","7","8","9"}

UpperChar(c) ==
  IF \E i \in 1..26 : LowerAlpha[i] = c
    THEN UpperAlpha[CHOOSE i \in 1..26 : LowerAlpha[i] = c] ELSE c
LowerChar(c) ==
  IF \E i \in 1..26 : UpperAlpha[i] = c
    THEN LowerAlpha[CHOOSE i \in 1..26 : UpperAlpha[i] = c] ELSE c

toUpperCase(s) == [i \in 1..Len(s) |-> UpperChar(s[i])]
toLowerCase(s) == [i \in 1..Len(s) |-> LowerChar(s[i])]

RECURSIVE trimStart(_)
trimStart(s) == IF s # <<>> /\ Head(s) = " " THEN trimStart(Tail(s)) ELSE s
RECURSIVE trimEnd(_)
trimEnd(s) ==
  IF s # <<>> /\ s[Len(s)] = " " THEN trimEnd(SubSeq(s, 1, Len(s) - 1)) ELSE s
trim(s) == trimEnd(trimStart(s))

Contains(text, word) ==
  \E i \in 1..(Len(text) - Len(word) + 1) : SubSeq(text, i, i + Len(word) - 1) = word

\* /word/i.test(text)
TestI(word, text) == Contains(toLowerCase(text), word)

\* ascii.match(/_(\d{1,4})$/)?.[1], the empty string when there is no match
TrailingNumber(ascii) ==
  LET n  == Len(ascii)
      ks == {k \in 1..4 : /\ n >= k + 1
                          /\ ascii[n - k] = "_"
                          /\ \A j \in (n - k + 1)..n : ascii[j] \in Digits}
  IN  IF ks = {} THEN <<>> ELSE LET k == CHOOSE k \in ks : TRUE
                                IN  SubSeq(ascii, n - k + 1, n)

\* the characters of the bytes an asset name is made of; a byte outside the
\* table stands for a byte sequence that is not valid UTF-8
ByteChar ==
  (32 :> " ") @@ (48 :> "0") @@ (49 :> "1") @@ (50 :> "2") @@ (51 :> "3") @@
  (52 :> "4") @@ (53 :> "5") @@ (54 :> "6") @@ (55 :> "7") @@ (56 :> "8") @@
  (57 :> "9") @@ (65 :> "A") @@ (66 :> "B") @@ (78 :> "N") @@ (95 :> "_") @@
  (97 :> "a") @@ (98 :> "b") @@ (120 :> "x")

\* hexToAscii: percent-decode every byte; decodeURIComponent throws on
\* malformed UTF-8 and the catch returns ''.  The hex text is kept as bytes.
hexToAscii(bytes) ==
  IF \E i \in 1..Len(bytes) : bytes[i] \notin DOMAIN ByteChar THEN <<>>
  ELSE [i \in 1..Len(bytes) |-> ByteChar[bytes[i]]]

IpfsScheme  == <<"i","p","f","s",":","/","/">>
IpfsGateway == <<"h","t","t","p","s",":","/","/","i","p","f","s",".","b","l","o",
                 "c","k","f","r","o","s","t",".","d","e","v","/","i","p","f","s","/">>

\* const ipfs = (u) => u?.startsWith('ipfs://') ? (gateway + u.slice(7)) : u
ipfs(u) ==
  IF StartsWith(u, IpfsScheme) THEN IpfsGateway \o SubSeq(u, 8, Len(u)) ELSE u

(***************************************************************************)
(* Metadata: a bag is a function from field names to string values; a      *)
(* field that is absent, null, false or '' is falsy.                       *)
(***************************************************************************)
EmptyBag == [k \in {} |-> <<>>]
Has(bag, k) == k \in DOMAIN bag
Get(bag, k) == IF k \in DOMAIN bag THEN bag[k] ELSE <<>>
Truthy(bag, k) == Get(bag, k) # <<>>

FlagBlood  == <<"b","l","o","o","d">>
FlagCoffee == <<"c","o","f","f","e","e">>
FlagFlip   == <<"f","l","i","p">>
FlagLaser  == <<"l","a","s","e","r">>

\* info.onchain_metadata?.attributes || info.onchain_metadata?.traits || {}
AttrsOf(info) ==
  IF info.hasAttributes THEN info.attributes
  ELSE IF info.hasTraits THEN info.traits
  ELSE EmptyBag

\* ... || info.onchain_metadata || {}  (matchVariantOnchain only)
AttrsOrTop(info) ==
  IF info.hasAttributes THEN info.attributes
  ELSE IF info.hasTraits THEN info.traits
  ELSE info.own

(***************************************************************************)
(* Variant matching                                                        *)
(***************************************************************************)
NoLocal ==
  [hit |-> FALSE, variantKey |-> <<>>, name |-> <<>>, image |-> <<>>,
   number |-> <<>>, traitFlags |-> <<>>]

\* index = NAME_INDEX: [loaded |-> FALSE] is null, otherwise rows maps the
\* ASCII name to [variant, image, traitKeys (Object.keys(r.traits)), stamp
\* (r.traits.STAMP, '' when absent)]
resolveFromLocalByName(asciiName, index) ==
  IF ~index.loaded THEN NoLocal
  ELSE IF asciiName \notin DOMAIN index.rows THEN NoLocal
  ELSE LET r == index.rows[asciiName] IN
       [hit        |-> TRUE,
        variantKey |-> r.variant,
        name       |-> asciiName,
        image      |-> ipfs(r.image),
        number     |-> IF r.stamp # <<>> THEN r.stamp ELSE TrailingNumber(asciiName),
        traitFlags |-> [i \in 1..Len(r.traitKeys) |-> toLowerCase(r.traitKeys[i])]]

SlotOf(attrs) ==
  trim(IF Truthy(attrs, "slot") THEN attrs["slot"] ELSE Get(attrs, "Slot"))

matchVariantOnchain(variantKey, info) ==
  LET slot  == SlotOf(AttrsOrTop(info))
      ascii == hexToAscii(info.asset_name)
  IN  \/ slot # <<>> /\ toUpperCase(slot) = toUpperCase(variantKey)
      \/ ascii # <<>> /\ StartsWith(toUpperCase(ascii), toUpperCase(variantKey \o <<"_">>))

\* the match expression of computeHoldings and of GET /assets
MatchVariant(variantKey, info, local) ==
  \/ local.hit /\ toUpperCase(local.variantKey) = toUpperCase(variantKey)
  \/ matchVariantOnchain(variantKey, info)

\* info.asset.slice(56): the asset-name part of the unit, in hex
UnitTail(info) == HexOfBytes(info.asset.name)

\* extractNumber without the lookup of the STAMP attribute
extractNumberFromName(info) ==
  LET m == TrailingNumber(hexToAscii(info.asset_name))
  IN  IF m # <<>> THEN m ELSE UnitTail(info)

extractNumber(info) ==
  LET attrs == AttrsOf(info)
      m     == TrailingNumber(hexToAscii(info.asset_name))
  IN  IF Has(attrs, "STAMP") THEN attrs["STAMP"]
      ELSE IF m # <<>> THEN m
      ELSE UnitTail(info)

Detected(info) ==
  LET attrs == AttrsOf(info)
      t     == Get(attrs, "trait")
  IN  (IF Truthy(attrs, "blood")  \/ TestI(FlagBlood, t)  THEN <<FlagBlood>>  ELSE <<>>)
   \o (IF Truthy(attrs, "coffee") \/ TestI(FlagCoffee, t) THEN <<FlagCoffee>> ELSE <<>>)
   \o (IF Truthy(attrs, "flip") \/ Truthy(attrs, "flipped") \/ TestI(FlagFlip, t)
         THEN <<FlagFlip>> ELSE <<>>)
   \o (IF Truthy(attrs, "laser")  \/ TestI(FlagLaser, t)  THEN <<FlagLaser>>  ELSE <<>>)

InSeq(x, seq) == \E i \in 1..Len(seq) : seq[i] = x

\* Set.prototype.add for each element, in order; a Set keeps insertion order
RECURSIVE AddAll(_, _)
AddAll(set, xs) ==
  IF xs = <<>> THEN set
  ELSE AddAll(IF InSeq(toLowerCase(Head(xs)), set) THEN set
              ELSE Append(set, toLowerCase(Head(xs))), Tail(xs))

\* info.onchain_metadata?.image || info.metadata?.image
ImageOf(info) ==
  IF Truthy(info.own, "image") THEN info.own["image"] ELSE info.metaImage

EmptyTally == [count |-> 0, traitFlags |-> <<>>, sampleImage |-> <<>>]

\* for (const v of variants) tallies[v.key] = {count: 0, ...}
InitTallies(catalog) ==
  [k \in {catalog[i].key : i \in 1..Len(catalog)} |-> EmptyTally]

VariantOf(catalog, k) == catalog[CHOOSE i \in 1..Len(catalog) : catalog[i].key = k]

\* a tally in which a unit counts for the first catalog variant it matches only
TallyUnitFirst(tallies, catalog, info, index) ==
  LET local == resolveFromLocalByName(hexToAscii(info.asset_name), index)
      hits  == {i \in 1..Len(catalog) : MatchVariant(catalog[i].key, info, local)}
  IN  IF hits = {} THEN tallies
      ELSE LET first == CHOOSE i \in hits : \A j \in hits : i <= j
           IN  [tallies EXCEPT ![catalog[first].key].count = @ + 1]

\* the body of "for (const unit of units)" after info is known
TallyUnit(tallies, catalog, info, index) ==
  LET local == resolveFromLocalByName(hexToAscii(info.asset_name), index) IN
  [k \in DOMAIN tallies |->
     IF ~MatchVariant(k, info, local) THEN tallies[k]
     ELSE LET t   == tallies[k]
              img == IF local.image # <<>> THEN local.image ELSE ipfs(ImageOf(info))
          IN  [count       |-> t.count + 1,
               traitFlags  |-> AddAll(t.traitFlags,
                                 Detected(info) \o local.traitFlags
                                   \o VariantOf(catalog, k).traitIcons),
               sampleImage |-> IF t.sampleImage = <<>> /\ img # <<>>
                                 THEN img ELSE t.sampleImage]]

FlagCap == 3

\* Array.from(set) without the slice
SliceNothing(flags) == flags

\* Array.from(set).slice(0, 3)
SliceFlags(flags) == SubSeq(flags, 1, IF Len(flags) < FlagCap THEN Len(flags) ELSE FlagCap)

FinishTallies(tallies) ==
  [k \in DOMAIN tallies |-> [tallies[k] EXCEPT !.traitFlags = SliceFlags(@)]]

\* one item of GET /assets/:addr/:variantKey
ItemOf(unit, info, index) ==
  LET ascii == hexToAscii(info.asset_name)
      local == resolveFromLocalByName(ascii, index)
  IN  [unit   |-> unit,
       name   |-> IF local.name # <<>> THEN local.name
                  ELSE IF ascii # <<>> THEN ascii ELSE HexOfBytes(info.asset_name),
       image  |-> IF local.image # <<>> THEN local.image ELSE ipfs(ImageOf(info)),
       number |-> IF local.number # <<>> THEN local.number ELSE extractNumber(info)]

(***************************************************************************)
(* Catalogs, local indexes and the assets the provider knows               *)
(***************************************************************************)
KeyA == <<"A">>
KeyB == <<"B">>

\* variants.json: ordered, keys unique; traitIcons is <<>> when the entry
\* has none (Array.isArray(v.traitIcons) ? v.traitIcons : [])
CatalogAB ==
  << [key |-> KeyA, traitIcons |-> << <<"S","t","a","r">> >>],
     [key |-> KeyB, traitIcons |-> <<>>] >>
CatalogBA ==
  << [key |-> KeyB, traitIcons |-> << <<"L","A","S","E","R">>, <<"b","l","o","o","d">>,
                                       <<"X","9">>, <<"G","o","l","d">> >>],
     [key |-> KeyA, traitIcons |-> <<>>] >>
Catalogs == {CatalogAB, CatalogBA}

CatalogKeys(catalog) == {catalog[i].key : i \in 1..Len(catalog)}

\* a lookup that finds every key
HasVariantAny(catalog, variantKey) == TRUE

\* variantByKey.get(variantKey): exact key, or no entry
HasVariant(catalog, variantKey) == variantKey \in CatalogKeys(catalog)

OurPolicy   == "P"
OtherPolicy == "Q"

Unit(policy, name) == [policy |-> policy, name |-> name]

Info(policy, name, hasA, attributes, hasT, traits, own, metaImage) ==
  [asset |-> Unit(policy, name), asset_name |-> name,
   hasAttributes |-> hasA, attributes |-> attributes,
   hasTraits |-> hasT, traits |-> traits, own |-> own, metaImage |-> metaImage]

TrueText == <<"t","r","u","e">>
ImgX == <<"i","p","f","s",":","/","/","x">>
ImgN == <<"i","p","f","s",":","/","/","n">>
ImgH == <<"h","t","t","p">>

NameA7     == <<65, 95, 55>>
NameA8     == <<65, 95, 56>>
NameX1     == <<120, 49>>
NameN1     == <<78, 49>>
NameLong   == <<98, 95, 49, 50, 51, 52, 53>>
NameBad    == <<255>>
NameB2     == <<66, 95, 50>>
NameA3     == <<65, 95, 51>>

\* 'A_7', no metadata at all
AssetA7 == Info(OurPolicy, NameA7, FALSE, EmptyBag, FALSE, EmptyBag, EmptyBag, <<>>)
\* 'A_8', attributes with STAMP and all four flags, an ipfs image
AssetA8 ==
  Info(OurPolicy, NameA8, TRUE,
       ("STAMP" :> <<"4","2">>) @@ ("blood" :> TrueText) @@ ("coffee" :> TrueText)
         @@ ("flipped" :> TrueText) @@ ("laser" :> TrueText),
       FALSE, EmptyBag, ("image" :> ImgX), <<>>)
\* 'x1', traits object with a padded lower-case Slot and a free-text trait
AssetX1 ==
  Info(OurPolicy, NameX1, FALSE, EmptyBag, TRUE,
       ("Slot" :> <<" ","b"," ">>) @@ ("trait" :> <<"B","l","o","o","d","y">>),
       EmptyBag, ImgH)
\* 'N1', attributes with slot B; STAMP directly in onchain_metadata
AssetN1 ==
  Info(OurPolicy, NameN1, TRUE, ("slot" :> KeyB), FALSE, EmptyBag,
       ("STAMP" :> <<"9">>), <<>>)
\* 'b_12345': lower-case prefix, five digits
AssetLong == Info(OurPolicy, NameLong, FALSE, EmptyBag, FALSE, EmptyBag, EmptyBag, <<>>)
\* a name that is not valid UTF-8; slot A directly in onchain_metadata
AssetBad ==
  Info(OurPolicy, NameBad, FALSE, EmptyBag, FALSE, EmptyBag, ("slot" :> KeyA), <<>>)
\* 'x': nothing to match on
AssetNone == Info(OurPolicy, <<120>>, FALSE, EmptyBag, FALSE, EmptyBag, EmptyBag, <<>>)
\* 'B_2', no metadata
AssetB2 == Info(OurPolicy, NameB2, FALSE, EmptyBag, FALSE, EmptyBag, EmptyBag, <<>>)

\* 'A_3', attributes with slot B: the name says A, the slot says B
AssetA3 ==
  Info(OurPolicy, NameA3, TRUE, ("slot" :> KeyB), FALSE, EmptyBag, EmptyBag, <<>>)

AssetPool ==
  <<AssetA7, AssetA8, AssetX1, AssetN1, AssetLong, AssetBad, AssetB2, AssetNone,
    AssetA3>>

\* a token of another policy; n makes the names differ
Filler(n) ==
  Info(OtherPolicy, <<48 + (n \div 100), 48 + ((n \div 10) % 10), 48 + (n % 10)>>,
       FALSE, EmptyBag, FALSE, EmptyBag, EmptyBag, <<>>)

\* api.assetsById(unit): the metadata the provider returns for a unit
ProviderInfo(unit) ==
  IF \E i \in 1..Len(AssetPool) : AssetPool[i].asset = unit
    THEN AssetPool[CHOOSE i \in 1..Len(AssetPool) : AssetPool[i].asset = unit]
    ELSE Info(unit.policy, unit.name, FALSE, EmptyBag, FALSE, EmptyBag, EmptyBag, <<>>)

\* meta_index.json
NoIndex == [loaded |-> FALSE, rows |-> EmptyBag]
IndexFile ==
  [loaded |-> TRUE,
   rows |->
     (<<"N","1">> :> [variant |-> <<"a">>, image |-> ImgN,
                      traitKeys |-> << <<"S","T","A","M","P">>, <<"G","o","l","d">> >>,
                      stamp |-> <<"5">>])
     @@ (<<"B","_","2">> :> [variant |-> KeyA, image |-> <<>>,
                             traitKeys |-> <<>>, stamp |-> <<>>])]
Indexes == {NoIndex, IndexFile}

(***************************************************************************)
(* The pure aggregation: computeHoldings / GET /assets over a unit list    *)
(* whose metadata is all known                                             *)
(***************************************************************************)
RECURSIVE TallyAll(_, _, _, _, _)
TallyAll(units, i, tallies, catalog, index) ==
  IF i > Len(units) \/ tallies = EmptyBag THEN tallies
  ELSE TallyAll(units, i + 1,
                TallyUnit(tallies, catalog, ProviderInfo(units[i]), index),
                catalog, index)

computeTallies(units, catalog, index) ==
  FinishTallies(TallyAll(units, 1, InitTallies(catalog), catalog, index))

\* a listing that matches on the chain data only and never asks the local index
RECURSIVE ItemsAllOnchain(_, _, _, _, _)
ItemsAllOnchain(units, i, items, variantKey, index) ==
  IF i > Len(units) THEN items
  ELSE LET info == ProviderInfo(units[i])
       IN  ItemsAllOnchain(units, i + 1,
                           IF matchVariantOnchain(variantKey, info)
                             THEN Append(items, ItemOf(units[i], info, index)) ELSE items,
                           variantKey, index)

RECURSIVE ItemsAll(_, _, _, _, _)
ItemsAll(units, i, items, variantKey, index) ==
  IF i > Len(units) THEN items
  ELSE LET info  == ProviderInfo(units[i])
           local == resolveFromLocalByName(hexToAscii(info.asset_name), index)
       IN  ItemsAll(units, i + 1,
                    IF MatchVariant(variantKey, info, local)
                      THEN Append(items, ItemOf(units[i], info, index)) ELSE items,
                    variantKey, index)

(***************************************************************************)
(* State                                                                   *)
(***************************************************************************)
VARIABLES
  NETWORK_ID,   \* process.env.NETWORK_ID
  POLICY_ID,    \* process.env.POLICY_ID, "" when unset
  variants,     \* variants.json
  NAME_INDEX,   \* the loaded meta_index.json
  provAddr,     \* provider: payment address -> stake address
  provRows,     \* provider: stake address -> asset rows of the account
  accCache,     \* stake -> [rows, stale]
  infoCache,    \* unit  -> [info, stale]
  db,           \* db.json: wallets, stake -> [reveals]
  req,          \* the requests being handled
  last,         \* the request answered last, with its answer
  started,      \* number of requests started so far
  events,       \* number of changes around the server so far
  cIn, cOut, cOut2, cPc,      \* normalisation of one identifier, applied twice
  tUnits, tOut, tItems, tPc,  \* aggregation of one unit list
  nonces, clock, issued, verified, lastVerify  \* ownership challenge

confVars  == <<NETWORK_ID, POLICY_ID, variants, NAME_INDEX>>
provVars  == <<provAddr, provRows>>
srvVars   == <<accCache, infoCache, db, req, last, started, events>>
codecVars == <<cIn, cOut, cOut2, cPc>>
tallyVars == <<tUnits, tOut, tItems, tPc>>
chalVars  == <<nonces, clock, issued, verified, lastVerify>>
vars == <<confVars, provVars, srvVars, codecVars, tallyVars, chalVars>>

(***************************************************************************)
(* Initial values                                                          *)
(***************************************************************************)
NoRet == [tag |-> "none", val |-> <<>>, calls |-> 0]

\* the payment address the provider knows, and what it answers for it
AddrTables ==
  { (PK2 :> a) :
      a \in {[tag |-> "ok", val |-> SK2],
             [tag |-> "null", val |-> <<>>],
             [tag |-> "throw", val |-> <<>>]} }

CodecIdle == cIn = <<>> /\ cOut = NoRet /\ cOut2 = NoRet /\ cPc = "off"
TallyIdle == tUnits = <<>> /\ tOut = EmptyBag /\ tItems = EmptyBag /\ tPc = "off"

(***************************************************************************)
(* toStakeAddress applied to one identifier, then to its own result        *)
(***************************************************************************)
CodecInputs ==
  { <<>>,
    <<"n","o","t"," ","h","e","x">>,
    SK1,
    STK1,
    PK1,
    PK2,
    PayTest(K2),
    HexK1,
    toUpperCase(HexOfBytes(K2)),
    HexOfBytes(K1) \o <<"0">>,
    HexOfBytes(SubSeq(K1, 1, 27)),
    HexOfBytes(<<225>> \o K1),
    HexOfBytes(<<224>> \o K1),
    HexOfBytes(<<97>> \o K2),
    HexOfBytes(<<96>> \o K2),
    HexOfBytes(<<1>> \o K1 \o K2) }

CodecNormalize ==
  /\ cPc = "in"
  /\ cOut' = toStakeAddress(cIn, NETWORK_ID, provAddr)
  /\ cPc' = "once"
  /\ UNCHANGED <<cIn, cOut2>>

CodecAgain ==
  /\ cPc = "once"
  /\ cOut.tag = "ok"
  /\ cOut2' = toStakeAddress(cOut.val, NETWORK_ID, provAddr)
  /\ cPc' = "twice"
  /\ UNCHANGED <<cIn, cOut>>

(***************************************************************************)
(* Caches (lru-cache with a ttl): get answers only for an entry that is    *)
(* present and not older than the ttl, and removes an entry it finds too   *)
(* old; set always overwrites.  The capacities (500 and 5000 entries) are  *)
(* never reached by the few keys of this model.                            *)
(***************************************************************************)
Fresh(cache, k) == k \in DOMAIN cache /\ ~cache[k].stale
Drop(cache, k)  == [x \in DOMAIN cache \ {k} |-> cache[x]]
AfterGet(cache, k) ==
  IF k \in DOMAIN cache /\ cache[k].stale THEN Drop(cache, k) ELSE cache
Put(cache, k, v) == (k :> v) @@ cache

(***************************************************************************)
(* Requests                                                                *)
(***************************************************************************)
PageSize == 100

Row(u)   == [hasUnit |-> TRUE, unit |-> u]
BlankRow == [hasUnit |-> FALSE, unit |-> Unit("", <<>>)]

\* rows.map(r => r.asset || r.unit).filter(Boolean)
\*     .filter(u => POLICY_ID ? u.startsWith(POLICY_ID) : true)
PolicyUnits(rows, policy) ==
  LET keep == SelectSeq(rows, LAMBDA r :
                r.hasUnit /\ (policy = "" \/ r.unit.policy = policy))
  IN  [i \in 1..Len(keep) |-> keep[i].unit]

Min(a, b) == IF a < b THEN a ELSE b

\* api.accountsAddressesAssets(stake, {count: 100, page})
ProviderPage(listing, page) ==
  SubSeq(listing, PageSize * (page - 1) + 1, Min(PageSize * page, Len(listing)))

Resp(status, error) ==
  [status |-> status, error |-> error, variants |-> <<>>, items |-> <<>>,
   reveals |-> <<>>]
NoResp == Resp(0, "")

\* what accCache held for the stake when the listing was looked up
NoEntry == [had |-> FALSE, rows |-> <<>>]
EntryOf(cache, k) ==
  IF Fresh(cache, k) THEN [had |-> TRUE, rows |-> cache[k].rows] ELSE NoEntry

IdleReq ==
  [pc |-> "idle", kind |-> "none", raw |-> <<>>, force |-> FALSE,
   variantKey |-> <<>>, stake |-> <<>>, hit |-> FALSE, rows |-> <<>>, page |-> 0,
   inflight |-> <<>>, fetched |-> 0, units |-> <<>>, i |-> 0,
   tallies |-> EmptyBag, items |-> <<>>, old |-> NoEntry]

NoLast ==
  [kind |-> "none", raw |-> <<>>, force |-> FALSE, variantKey |-> <<>>,
   stake |-> <<>>, hit |-> FALSE, fetched |-> 0, units |-> <<>>,
   tallies |-> EmptyBag, old |-> NoEntry, known |-> FALSE, resp |-> NoResp]

\* the answer is sent and the handler ends; last keeps what it was asked,
\* what it found and what it answered (raw: the identifier as sent, for a
\* request that ended before its listing was read; known: the reveal list
\* already had the variant key when the handler read the store)
Done(m, resp) ==
  [m EXCEPT !.rq = IdleReq,
            !.last = [kind |-> m.rq.kind, raw |-> m.rq.raw, force |-> m.rq.force,
                      variantKey |-> m.rq.variantKey, stake |-> m.rq.stake,
                      hit |-> m.rq.hit, fetched |-> m.rq.fetched,
                      units |-> m.rq.units, tallies |-> m.rq.tallies,
                      old |-> m.rq.old, known |-> FALSE, resp |-> resp]]

\* a catch that keeps the pages received so far in accCache
FailedKeepsRows(m) ==
  Done([m EXCEPT !.acc = IF m.rq.pc = "page"
                           THEN Put(@, m.rq.stake, [rows |-> m.rq.rows, stale |-> FALSE])
                           ELSE @],
       Resp(500, "failed"))

\* catch (e) { res.status(500).json({ error: '..._failed' }) }
Failed(m) ==
  Done(m, Resp(500, IF m.rq.kind = "holdings" THEN "holdings_failed"
                    ELSE IF m.rq.kind = "assets" THEN "assets_failed"
                    ELSE "reveal_failed"))

RecordOf(store, stake) ==
  IF stake \in DOMAIN store THEN store[stake] ELSE [reveals |-> <<>>]

\* a summary of the held variants only
SummaryOfHeld(catalog, tallies, reveals) ==
  LET held == SelectSeq(catalog, LAMBDA v : tallies[v.key].count > 0) IN
  [i \in 1..Len(held) |->
     [key         |-> held[i].key,
      count       |-> tallies[held[i].key].count,
      sampleImage |-> tallies[held[i].key].sampleImage,
      traitFlags  |-> tallies[held[i].key].traitFlags,
      revealed    |-> InSeq(held[i].key, reveals)]]

\* const out = variants.map(v => ({key, count, sampleImage, traitFlags, revealed}))
SummaryOf(catalog, tallies, reveals) ==
  [i \in 1..Len(catalog) |->
     [key         |-> catalog[i].key,
      count       |-> tallies[catalog[i].key].count,
      sampleImage |-> tallies[catalog[i].key].sampleImage,
      traitFlags  |-> tallies[catalog[i].key].traitFlags,
      revealed    |-> InSeq(catalog[i].key, reveals)]]

\* a holdings query that writes a new record whatever the store holds
HoldingsTailFresh(m) ==
  LET rec == [reveals |-> <<>>] IN
  Done([m EXCEPT !.db = Put(m.db, m.rq.stake, rec)],
       [Resp(200, "") EXCEPT !.variants = SummaryOf(variants, m.rq.tallies, rec.reveals)])

\* GET /holdings/:addr after computeHoldings: touch the wallet record, answer
HoldingsTail(m) ==
  LET rec == RecordOf(m.db, m.rq.stake) IN
  Done([m EXCEPT !.db = Put(m.db, m.rq.stake, rec)],
       [Resp(200, "") EXCEPT !.variants = SummaryOf(variants, m.rq.tallies, rec.reveals)])

\* (tallies?.[variantKey]?.count || 0) < 1
NotHolder(tallies, variantKey) ==
  (IF variantKey \in DOMAIN tallies THEN tallies[variantKey].count ELSE 0) < 1

\* a push without the look at what the list holds
AddRevealAlways(rec, variantKey) == [rec EXCEPT !.reveals = Append(@, variantKey)]

\* if (!rec.reveals.includes(variantKey)) rec.reveals.push(variantKey)
AddReveal(rec, variantKey) ==
  IF InSeq(variantKey, rec.reveals) THEN rec
  ELSE [rec EXCEPT !.reveals = Append(@, variantKey)]

\* POST /reveal after computeHoldings
RevealTail(m) ==
  IF NotHolder(m.rq.tallies, m.rq.variantKey) THEN Done(m, Resp(403, "not_holder"))
  ELSE LET read == RecordOf(m.db, m.rq.stake)
           rec  == AddReveal(read, m.rq.variantKey)
           sent == Done([m EXCEPT !.db = Put(m.db, m.rq.stake, rec)],
                        [Resp(200, "") EXCEPT !.reveals = rec.reveals])
       IN  [sent EXCEPT !.last.known = InSeq(m.rq.variantKey, read.reveals)]

AssetsTail(m) == Done(m, [Resp(200, "") EXCEPT !.items = m.rq.items])

\* what follows the loop over the units
AfterLoop(m) ==
  IF m.rq.kind = "assets" THEN AssetsTail(m)
  ELSE LET f == [m EXCEPT !.rq.tallies = FinishTallies(@)] IN
       IF m.rq.kind = "holdings" THEN HoldingsTail(f) ELSE RevealTail(f)

\* the loop body for one unit whose metadata is info
ProcessUnit(m, info) ==
  IF m.rq.kind = "assets"
    THEN LET local == resolveFromLocalByName(hexToAscii(info.asset_name), NAME_INDEX)
         IN  [m EXCEPT !.rq.i = @ + 1,
                       !.rq.items =
                          IF MatchVariant(m.rq.variantKey, info, local)
                            THEN Append(@, ItemOf(m.rq.units[m.rq.i], info, NAME_INDEX))
                            ELSE @]
    ELSE [m EXCEPT !.rq.i = @ + 1,
                   !.rq.tallies = TallyUnit(@, variants, info, NAME_INDEX)]

\* for (const unit of units): runs on while infoCache answers, stops at the
\* first unit whose metadata has to be fetched (await api.assetsById(unit))
RECURSIVE RunLoop(_)
RunLoop(m) ==
  IF m.rq.i > Len(m.rq.units) THEN AfterLoop(m)
  ELSE LET unit == m.rq.units[m.rq.i] IN
       IF Fresh(m.info, unit) THEN RunLoop(ProcessUnit(m, m.info[unit].info))
       ELSE [m EXCEPT !.info = AfterGet(@, unit), !.rq.pc = "info"]

EnterLoop(m) ==
  RunLoop([m EXCEPT !.rq.i = 1, !.rq.items = <<>>,
                    !.rq.tallies = IF m.rq.kind = "assets" THEN EmptyBag
                                   ELSE InitTallies(variants)])

\* a lookup that takes the entry whatever force says
CacheHitForced(m) == Fresh(m.acc, m.rq.stake)

\* if (!rows || !rows.length): an entry with an empty listing counts as none
CacheHitNonEmpty(m) ==
  ~m.rq.force /\ Fresh(m.acc, m.rq.stake) /\ m.acc[m.rq.stake].rows # <<>>

\* let rows = !force ? accCache.get(stake) : null; if (!rows) { page 1 ... }
CacheHit(m) == ~m.rq.force /\ Fresh(m.acc, m.rq.stake)

\* listPolicyUnits up to its first await
EnterListing(m) ==
  IF CacheHit(m)
    THEN EnterLoop([m EXCEPT !.rq.hit = TRUE,
                             !.rq.old = EntryOf(m.acc, m.rq.stake),
                             !.rq.units = PolicyUnits(m.acc[m.rq.stake].rows, POLICY_ID)])
    ELSE [m EXCEPT !.acc = IF m.rq.force THEN @ ELSE AfterGet(@, m.rq.stake),
                   !.rq.old = EntryOf(m.acc, m.rq.stake),
                   !.rq.pc = "page", !.rq.page = 1, !.rq.rows = <<>>,
                   !.rq.inflight = ProviderPage(provRows[m.rq.stake], 1),
                   !.rq.fetched = 1]

\* a listing that is closed after its first page, whatever its length
AfterPageOnce(m) ==
  LET rows == m.rq.rows \o m.rq.inflight IN
  EnterLoop([m EXCEPT !.acc = Put(@, m.rq.stake, [rows |-> rows, stale |-> FALSE]),
                      !.rq.rows = rows,
                      !.rq.units = PolicyUnits(rows, POLICY_ID)])

\* a page has arrived: rows = rows.concat(next); the loop test; accCache.set
AfterPage(m) ==
  LET rows == m.rq.rows \o m.rq.inflight IN
  IF Len(rows) = PageSize * m.rq.page
    THEN [m EXCEPT !.rq.rows = rows, !.rq.page = @ + 1,
                   !.rq.inflight = ProviderPage(provRows[m.rq.stake], m.rq.page + 1),
                   !.rq.fetched = @ + 1]
    ELSE EnterLoop([m EXCEPT !.acc = Put(@, m.rq.stake, [rows |-> rows, stale |-> FALSE]),
                             !.rq.rows = rows,
                             !.rq.units = PolicyUnits(rows, POLICY_ID)])

\* the metadata of unit i has arrived: infoCache.set(unit, info), loop body
AfterInfo(m) ==
  LET unit == m.rq.units[m.rq.i]
      info == ProviderInfo(unit)
  IN  RunLoop(ProcessUnit([m EXCEPT !.info = Put(@, unit, [info |-> info, stale |-> FALSE])],
                          info))

\* the handlers up to the call of listPolicyUnits / computeHoldings
Begin(m) ==
  LET rq   == m.rq
      norm == toStakeAddress(IF rq.kind = "holdings" THEN trim(rq.raw) ELSE rq.raw,
                             NETWORK_ID, provAddr)
  IN  IF rq.kind = "reveal" /\ (rq.raw = <<>> \/ rq.variantKey = <<>>)
        THEN Done(m, Resp(400, "missing_params"))
      ELSE IF norm.tag = "throw" THEN Failed(m)
      ELSE IF norm.tag = "null" THEN Done(m, Resp(400, "bad_address"))
      ELSE IF rq.kind # "holdings" /\ ~HasVariant(variants, rq.variantKey)
        THEN Done([m EXCEPT !.rq.stake = norm.val], Resp(404, "unknown_variant"))
      ELSE EnterListing([m EXCEPT !.rq.stake = norm.val, !.rq.raw = <<>>])

Machine(r) ==
  [rq |-> req[r], acc |-> accCache, info |-> infoCache, db |-> db, last |-> last]

Commit(r, m) ==
  /\ req' = [req EXCEPT ![r] = m.rq]
  /\ accCache' = m.acc
  /\ infoCache' = m.info
  /\ db' = m.db
  /\ last' = m.last

(***************************************************************************)
(* Actions of the server                                                   *)
(***************************************************************************)
Slots == {1, 2}
MaxStarts == 2
MaxEvents == 2

RawInputs == {SK1, HexK1, PK2, Junk}
KeyInputs == {KeyA, KeyB, toLowerCase(KeyA), <<"Z">>}
Stakes    == {SK1, SK2, STK1}

ListEmpty == <<>>
ListOne   == <<Row(AssetA7.asset)>>
ListMixed == <<Row(AssetN1.asset), BlankRow, Row(Filler(0).asset), Row(AssetA8.asset)>>
ListLong  == [i \in 1..PageSize |-> Row(Filler(i).asset)] \o <<Row(AssetA7.asset)>>
Listings  == {ListEmpty, ListOne, ListMixed, ListLong}

\* a new request takes the lowest free slot (the slots are interchangeable)
CanStart(r) ==
  /\ req[r].pc = "idle"
  /\ \A q \in Slots : q < r => req[q].pc # "idle"
  /\ started < MaxStarts

StartWith(r, kind, raw, force, variantKey) ==
  /\ CanStart(r)
  /\ started' = started + 1
  /\ Commit(r, Begin([Machine(r) EXCEPT
                        !.rq = [IdleReq EXCEPT !.kind = kind, !.raw = raw,
                                               !.force = force,
                                               !.variantKey = variantKey]]))
  /\ UNCHANGED <<confVars, provVars, events, codecVars, tallyVars, chalVars>>

\* GET /holdings/:addr?force=
Holdings(r) ==
  \E raw \in RawInputs, force \in BOOLEAN : StartWith(r, "holdings", raw, force, <<>>)

\* GET /assets/:addr/:variantKey
Assets(r) ==
  \E raw \in RawInputs, k \in KeyInputs : StartWith(r, "assets", raw, FALSE, k)

\* POST /reveal {stake, variantKey}
Reveal(r) ==
  \E raw \in RawInputs \cup {<<>>}, k \in KeyInputs :
     StartWith(r, "reveal", raw, FALSE, k)

\* POST /reveal {stake, variantKey} as the first copy of the route handles it:
\* no normalisation, no look at the holdings, the record is kept under the
\* identifier as it was sent
RevealV1 ==
  /\ started < MaxStarts
  /\ started' = started + 1
  /\ \E raw \in RawInputs \cup {<<>>}, k \in KeyInputs \cup {<<>>} :
       LET asked == [NoLast EXCEPT !.kind = "reveal", !.raw = raw,
                                   !.variantKey = k, !.stake = raw,
                                   !.known = InSeq(k, RecordOf(db, raw).reveals)]
           rec   == AddReveal(RecordOf(db, raw), k)
       IN  IF raw = <<>> \/ k = <<>>
             THEN /\ last' = [asked EXCEPT !.resp = Resp(400, "missing_params")]
                  /\ db' = db
           ELSE IF ~HasVariant(variants, k)
             THEN /\ last' = [asked EXCEPT !.resp = Resp(404, "unknown_variant")]
                  /\ db' = db
           ELSE /\ db' = Put(db, raw, rec)
                /\ last' = [asked EXCEPT
                              !.resp = [Resp(200, "") EXCEPT !.reveals = rec.reveals]]
  /\ UNCHANGED <<confVars, provVars, accCache, infoCache, req, events,
                 codecVars, tallyVars, chalVars>>

\* a page of the account listing arrives
PageReturn(r) ==
  /\ req[r].pc = "page"
  /\ Commit(r, AfterPage(Machine(r)))
  /\ UNCHANGED <<confVars, provVars, started, events, codecVars, tallyVars, chalVars>>

\* the metadata of a unit arrives
InfoReturn(r) ==
  /\ req[r].pc = "info"
  /\ Commit(r, AfterInfo(Machine(r)))
  /\ UNCHANGED <<confVars, provVars, started, events, codecVars, tallyVars, chalVars>>

\* a provider call is rejected (error, timeout): the handler's catch answers 500
ProviderFails(r) ==
  /\ req[r].pc \in {"page", "info"}
  /\ Commit(r, Failed(Machine(r)))
  /\ UNCHANGED <<confVars, provVars, started, events, codecVars, tallyVars, chalVars>>

\* the holdings of the first account change on chain
ProviderChange ==
  /\ events < MaxEvents
  /\ \E l \in Listings :
        /\ l # provRows[SK1]
        /\ provRows' = [provRows EXCEPT ![SK1] = l]
  /\ events' = events + 1
  /\ UNCHANGED <<confVars, provAddr, accCache, infoCache, db, req, last, started,
                 codecVars, tallyVars, chalVars>>

\* 30 s pass since an account entry was set
AccExpire ==
  /\ events < MaxEvents
  /\ \E s \in DOMAIN accCache :
        /\ ~accCache[s].stale
        /\ accCache' = [accCache EXCEPT ![s].stale = TRUE]
  /\ events' = events + 1
  /\ UNCHANGED <<confVars, provVars, infoCache, db, req, last, started,
                 codecVars, tallyVars, chalVars>>

\* an hour passes since a metadata entry was set
InfoExpire ==
  /\ events < MaxEvents
  /\ \E u \in DOMAIN infoCache :
        /\ ~infoCache[u].stale
        /\ infoCache' = [infoCache EXCEPT ![u].stale = TRUE]
  /\ events' = events + 1
  /\ UNCHANGED <<confVars, provVars, accCache, db, req, last, started,
                 codecVars, tallyVars, chalVars>>

\* POST /index/reload after meta_index.json was replaced or removed
IndexReload ==
  /\ events < MaxEvents
  /\ \E ix \in Indexes : ix # NAME_INDEX /\ NAME_INDEX' = ix
  /\ events' = events + 1
  /\ UNCHANGED <<NETWORK_ID, POLICY_ID, variants, provVars,
                 accCache, infoCache, db, req, last, started,
                 codecVars, tallyVars, chalVars>>

(***************************************************************************)
(* computeHoldings and GET /assets applied to one list of units            *)
(***************************************************************************)
MaxWallet == 2

Wallets ==
  UNION { [1..n -> {AssetPool[i].asset : i \in 1..Len(AssetPool)}] : n \in 0..MaxWallet }

TallyCompute ==
  /\ tPc = "in"
  /\ LET t == computeTallies(tUnits, variants, NAME_INDEX) IN
       tOut' = [units |-> tUnits, tallies |-> t,
                summary |-> SummaryOf(variants, t, <<>>)]
  /\ tPc' = "tallied"
  /\ UNCHANGED <<tUnits, tItems>>
  /\ UNCHANGED <<confVars, provVars, srvVars, codecVars, chalVars>>

TallyList ==
  /\ tPc = "tallied"
  /\ tItems' = [k \in CatalogKeys(variants) |-> ItemsAll(tUnits, 1, <<>>, k, NAME_INDEX)]
  /\ tPc' = "listed"
  /\ UNCHANGED <<tUnits, tOut>>
  /\ UNCHANGED <<confVars, provVars, srvVars, codecVars, chalVars>>

(***************************************************************************)
(* Ownership challenge.  src/server.js has no code for it; the actions     *)
(* follow section 4.5 of spec.md, on top of toStakeAddress.  Time is       *)
(* counted in minutes; a signature is valid or tampered.                   *)
(***************************************************************************)
ChallengeWindow == 5
MaxClock == 6
MaxNonces == 2
MaxVerifies == 2

ChalInputs == {SK1, HexK1, SK2, Junk}
Signatures == {"valid", "tampered"}

NoVerify == [seq |-> 0, stake |-> <<>>, sig |-> "none", outcome |-> "none", nonce |-> 0]

ChalIdle ==
  /\ nonces = EmptyBag
  /\ clock = 0
  /\ issued = <<>>
  /\ verified = <<>>
  /\ lastVerify = NoVerify

\* a minute passes
Tick ==
  /\ clock < MaxClock
  /\ clock' = clock + 1
  /\ UNCHANGED <<nonces, issued, verified, lastVerify>>
  /\ UNCHANGED <<confVars, provVars, srvVars, codecVars, tallyVars>>

\* issueChallenge(rawIdentifier): a fresh nonce replaces any earlier one
IssueChallenge ==
  /\ Len(issued) < MaxNonces
  /\ \E raw \in ChalInputs :
     \E norm \in {toStakeAddress(raw, NETWORK_ID, provAddr)} :
       /\ norm.tag = "ok"
       /\ issued' = Append(issued, [stake |-> norm.val, at |-> clock])
       /\ verified' = Append(verified, [ok |-> 0, bad |-> 0])
       /\ nonces' = Put(nonces, norm.val,
                        [nonce |-> Len(issued) + 1, issuedAt |-> clock])
  /\ UNCHANGED <<clock, lastVerify>>
  /\ UNCHANGED <<confVars, provVars, srvVars, codecVars, tallyVars>>

Expired(entry, now) == now - entry.issuedAt > ChallengeWindow

\* the outcome of verify(rawIdentifier, publicKey, signature, payloadBytes);
\* sig says whether the signature verifies under the public key
VerifyOutcome(store, stake, sig, now) ==
  IF stake \notin DOMAIN store THEN "NoChallenge"
  ELSE IF Expired(store[stake], now) THEN "ChallengeExpired"
  ELSE IF sig # "valid" THEN "BadSignature"
  ELSE "ok"

\* a verify that never deletes the entry
VerifyStoreKeeps(store, stake, sig, now) == store

\* a verify that deletes the entry it finds, whatever the outcome
VerifyStoreBurns(store, stake, sig, now) == Drop(store, stake)

\* the nonce store after verify
VerifyStore(store, stake, sig, now) ==
  IF VerifyOutcome(store, stake, sig, now) \in {"ok", "ChallengeExpired"}
    THEN Drop(store, stake) ELSE store

Verify ==
  /\ lastVerify.seq < MaxVerifies
  /\ \E raw \in ChalInputs, sig \in Signatures :
     \E norm \in {toStakeAddress(raw, NETWORK_ID, provAddr)} :
       IF norm.tag # "ok"
         THEN /\ lastVerify' = [seq |-> lastVerify.seq + 1, stake |-> <<>>, sig |-> sig,
                                outcome |-> "BadAddress", nonce |-> 0]
              /\ UNCHANGED <<nonces, verified>>
         ELSE LET out == VerifyOutcome(nonces, norm.val, sig, clock)
                  n   == IF norm.val \in DOMAIN nonces THEN nonces[norm.val].nonce ELSE 0
              IN  /\ lastVerify' = [seq |-> lastVerify.seq + 1, stake |-> norm.val,
                                    sig |-> sig, outcome |-> out, nonce |-> n]
                  /\ nonces' = VerifyStore(nonces, norm.val, sig, clock)
                  /\ verified' =
                       IF out = "ok" THEN [verified EXCEPT ![n].ok = @ + 1]
                       ELSE IF out = "BadSignature" THEN [verified EXCEPT ![n].bad = 1]
                       ELSE verified
  /\ UNCHANGED <<clock, issued>>
  /\ UNCHANGED <<confVars, provVars, srvVars, codecVars, tallyVars>>

(***************************************************************************)
(* Specifications                                                          *)
(***************************************************************************)
SrvIdle ==
  /\ accCache = EmptyBag
  /\ infoCache = EmptyBag
  /\ db = EmptyBag
  /\ req = [r \in Slots |-> IdleReq]
  /\ last = NoLast
  /\ started = 0
  /\ events = 0

ProvDefault ==
  /\ provAddr = (PK2 :> [tag |-> "ok", val |-> SK2])
  /\ provRows = [s \in Stakes |-> IF s = SK2 THEN ListMixed ELSE ListOne]

\* the server
Init ==
  /\ NETWORK_ID = 1
  /\ POLICY_ID = OurPolicy
  /\ variants = CatalogAB
  /\ NAME_INDEX = NoIndex
  /\ ProvDefault
  /\ SrvIdle /\ CodecIdle /\ TallyIdle /\ ChalIdle

Next ==
  \/ \E r \in Slots : Holdings(r)
  \/ \E r \in Slots : Assets(r)
  \/ \E r \in Slots : Reveal(r)
  \/ \E r \in Slots : PageReturn(r)
  \/ \E r \in Slots : InfoReturn(r)
  \/ \E r \in Slots : ProviderFails(r)
  \/ ProviderChange
  \/ AccExpire
  \/ InfoExpire
  \/ IndexReload

Spec == Init /\ [][Next]_vars

\* POST /reveal as the file registers it: by its first copy and by its second
NextReveal ==
  \/ RevealV1
  \/ \E r \in Slots : Reveal(r)
  \/ \E r \in Slots : PageReturn(r)
  \/ \E r \in Slots : InfoReturn(r)
  \/ \E r \in Slots : ProviderFails(r)

SpecReveal == Init /\ [][NextReveal]_vars

\* toStakeAddress on every kind of identifier, on both networks
InitCodec ==
  /\ NETWORK_ID \in {0, 1}
  /\ POLICY_ID = OurPolicy
  /\ variants = CatalogAB
  /\ NAME_INDEX = NoIndex
  /\ provAddr \in AddrTables
  /\ provRows = [s \in Stakes |-> ListOne]
  /\ cIn \in CodecInputs /\ cOut = NoRet /\ cOut2 = NoRet /\ cPc = "in"
  /\ SrvIdle /\ TallyIdle /\ ChalIdle

NextCodec ==
  \/ CodecNormalize /\ UNCHANGED <<confVars, provVars, srvVars, tallyVars, chalVars>>
  \/ CodecAgain /\ UNCHANGED <<confVars, provVars, srvVars, tallyVars, chalVars>>

SpecCodec == InitCodec /\ [][NextCodec]_vars

\* the aggregation on every small wallet, catalog and index
InitTally ==
  /\ NETWORK_ID = 1
  /\ POLICY_ID = OurPolicy
  /\ variants \in Catalogs
  /\ NAME_INDEX \in Indexes
  /\ ProvDefault
  /\ tUnits \in Wallets /\ tOut = EmptyBag /\ tItems = EmptyBag /\ tPc = "in"
  /\ SrvIdle /\ CodecIdle /\ ChalIdle

NextTally == TallyCompute \/ TallyList

SpecTally == InitTally /\ [][NextTally]_vars

\* the challenge protocol
InitChallenge ==
  /\ NETWORK_ID = 1
  /\ POLICY_ID = OurPolicy
  /\ variants = CatalogAB
  /\ NAME_INDEX = NoIndex
  /\ ProvDefault
  /\ SrvIdle /\ CodecIdle /\ TallyIdle /\ ChalIdle

NextChallenge == Tick \/ IssueChallenge \/ Verify

SpecChallenge == InitChallenge /\ [][NextChallenge]_vars

(***************************************************************************)
(* Properties of the address normalisation                                 *)
(***************************************************************************)
\* C3: toStakeAddress is idempotent: whenever it answers an address for an
\* identifier, it answers the same address for that address, on either network.
C3_NormalizeIdempotent ==
  cPc = "twice" => cOut2.tag = "ok" /\ cOut2.val = cOut.val

\* a key hash in hex on the test network: the answer starts with stake_test1,
\* and toStakeAddress has no branch for that prefix
C3_TestnetRejected ==
  /\ cPc = "twice"
  /\ NETWORK_ID = 0
  /\ cIn = HexK1
  /\ cOut = RetOk(STK1, 0)
  /\ cOut2.tag = "null"

(***************************************************************************)
(* Properties of the aggregation                                           *)
(***************************************************************************)
UnitInfo(i)  == ProviderInfo(tUnits[i])
UnitAscii(i) == hexToAscii(UnitInfo(i).asset_name)
UnitLocal(i) == resolveFromLocalByName(UnitAscii(i), NAME_INDEX)

\* the local index row of unit i names catalog variant x
RowNames(i, x) ==
  UnitLocal(i).hit /\ toUpperCase(UnitLocal(i).variantKey) = toUpperCase(x)

\* the slot attribute of unit i selects catalog variant y
SlotSelects(i, y) ==
  LET slot == SlotOf(AttrsOrTop(UnitInfo(i)))
  IN  slot # <<>> /\ toUpperCase(slot) = toUpperCase(y)

\* unit i has a row for some other catalog variant than y, and slot y
Overruled(i, y) ==
  \E x \in CatalogKeys(variants) : x # y /\ RowNames(i, x) /\ SlotSelects(i, y)

Listed(k, unit) == \E j \in 1..Len(tItems[k]) : tItems[k][j].unit = unit

\* C2: when the local index row of an asset names variant X and its slot
\* attribute selects another variant Y, the row wins: the asset is not counted
\* in Y's tally and is not listed under Y, and it is listed under X.
C2_LocalRowWins ==
  tPc = "listed" =>
    \A y \in CatalogKeys(variants) :
      /\ tOut.tallies[y].count
           <= Cardinality({i \in 1..Len(tUnits) : ~Overruled(i, y)})
      /\ \A i \in 1..Len(tUnits) :
           Overruled(i, y) =>
             /\ ~Listed(y, tUnits[i])
             /\ \E x \in CatalogKeys(variants) : RowNames(i, x) /\ Listed(x, tUnits[i])

\* the asset N1, with a row for variant a and slot B, is counted for A and B
C2_CountedTwice ==
  /\ tPc = "listed"
  /\ NAME_INDEX = IndexFile
  /\ tUnits = <<AssetN1.asset>>
  /\ tOut.tallies[KeyA].count = 1
  /\ tOut.tallies[KeyB].count = 1
  /\ Listed(KeyA, AssetN1.asset)
  /\ Listed(KeyB, AssetN1.asset)

\* some unit of the wallet matches variant k
Matched(k) ==
  \E i \in 1..Len(tUnits) : MatchVariant(k, UnitInfo(i), UnitLocal(i))

\* C8: computeHoldings answers one tally per catalog entry whatever the wallet
\* holds: the keys of the tallies are the catalog keys, every count is a
\* natural number, a variant no asset matched has count 0, no trait flag and no
\* sample image, and the summary lists every catalog variant in catalog order.
C8_OneTallyPerVariant ==
  tPc \in {"tallied", "listed"} =>
    /\ DOMAIN tOut.tallies = CatalogKeys(variants)
    /\ \A k \in DOMAIN tOut.tallies :
         /\ tOut.tallies[k].count \in Nat
         /\ ~Matched(k) => tOut.tallies[k] = EmptyTally
    /\ Len(tOut.summary) = Len(variants)
    /\ \A i \in 1..Len(variants) :
         /\ tOut.summary[i].key = variants[i].key
         /\ tOut.summary[i].count = tOut.tallies[variants[i].key].count

\* a wallet that holds one variant and not the other
C8_HeldAndUnheld ==
  /\ tPc = "tallied"
  /\ tUnits # <<>>
  /\ \E i, j \in 1..Len(tOut.summary) :
        /\ tOut.summary[i].count = 0
        /\ tOut.summary[i].traitFlags = <<>>
        /\ tOut.summary[j].count = Len(tUnits)

IsLower(str) == \A i \in 1..Len(str) : \A j \in 1..26 : str[i] # UpperAlpha[j]

\* C9: in every result of computeHoldings every trait-flag list has at most
\* three entries, no entry twice, and lower-case entries only.
C9_FlagsCapped ==
  tPc \in {"tallied", "listed"} =>
    \A k \in DOMAIN tOut.tallies :
      LET f == tOut.tallies[k].traitFlags IN
        /\ Len(f) <= 3
        /\ \A i, j \in 1..Len(f) : f[i] = f[j] => i = j
        /\ \A i \in 1..Len(f) : IsLower(f[i])

\* N1 under variant B: two keys of its row and four icons of the variant, one
\* of them in both, in mixed case: five flags, of which three are answered
C9_FiveFlagsCut ==
  /\ tPc = "tallied"
  /\ variants = CatalogBA
  /\ NAME_INDEX = IndexFile
  /\ tUnits = <<AssetN1.asset>>
  /\ tOut.tallies[KeyB].traitFlags
       = << <<"s","t","a","m","p">>, <<"g","o","l","d">>, <<"l","a","s","e","r">> >>

\* the name of unit i is k, an underscore and one to four digits
PrefixNamed(i, k) ==
  LET a == UnitAscii(i) IN
    /\ Len(a) \in (Len(k) + 2)..(Len(k) + 5)
    /\ SubSeq(a, 1, Len(k)) = k
    /\ a[Len(k) + 1] = "_"
    /\ \A j \in (Len(k) + 2)..Len(a) : a[j] \in Digits

DigitRun(i, k) == SubSeq(UnitAscii(i), Len(k) + 2, Len(UnitAscii(i)))

Verifies == lastVerify'.seq = lastVerify.seq + 1

\* the number of the challenge issued last for the stake address, 0 if none
LatestIssue(stake) ==
  LET ns == {n \in 1..Len(issued) : issued[n].stake = stake}
  IN  IF ns = {} THEN 0 ELSE CHOOSE n \in ns : \A o \in ns : o <= n

\* the verify answered before this step was for the challenge that is still
\* the last one issued for its address, and this step verifies that address
SameChallenge ==
  /\ Verifies
  /\ lastVerify.nonce > 0
  /\ lastVerify'.stake = lastVerify.stake
  /\ LatestIssue(lastVerify.stake) = lastVerify.nonce

\* C6: a nonce is single-use: no issued challenge is ever verified
\* successfully twice; a successful verify deletes the entry; and a verify of
\* the same address that follows a successful one, with no challenge issued
\* in between, fails with NoChallenge.
C6_SingleUse ==
  /\ [](\A n \in 1..Len(verified) : verified[n].ok <= 1)
  /\ [][ /\ (Verifies /\ lastVerify'.outcome = "ok") =>
              /\ lastVerify'.stake \in DOMAIN nonces
              /\ lastVerify'.stake \notin DOMAIN nonces'
         /\ (SameChallenge /\ lastVerify.outcome = "ok") =>
              lastVerify'.outcome = "NoChallenge" ]_vars

\* issue, a valid verify, the same valid verify again
C6_SecondVerifyRefused ==
  /\ Len(issued) = 1
  /\ lastVerify.seq = 2
  /\ lastVerify.sig = "valid"
  /\ lastVerify.outcome = "NoChallenge"
  /\ lastVerify.stake = issued[1].stake
  /\ verified[1] = [ok |-> 1, bad |-> 0]

\* C7: a verify whose signature check fails answers BadSignature and leaves
\* the nonce store as it was; a verify of the same address with a valid
\* signature that follows it, with no challenge issued in between and not
\* more than five minutes after the issue, succeeds on the same nonce.
C7_BadSignatureKeepsNonce ==
  [][ /\ (Verifies /\ lastVerify'.outcome = "BadSignature") =>
           /\ lastVerify'.sig # "valid"
           /\ lastVerify'.stake \in DOMAIN nonces
           /\ nonces' = nonces
      /\ (/\ SameChallenge
          /\ lastVerify.outcome = "BadSignature"
          /\ lastVerify'.sig = "valid"
          /\ clock - issued[lastVerify.nonce].at <= 5) =>
           /\ lastVerify'.outcome = "ok"
           /\ lastVerify'.nonce = lastVerify.nonce ]_vars

\* issue, time passes, a tampered verify, time passes, a valid verify
C7_RetrySucceeds ==
  /\ Len(issued) = 1
  /\ lastVerify.seq = 2
  /\ lastVerify.outcome = "ok"
  /\ verified[1] = [ok |-> 1, bad |-> 1]
  /\ clock = issued[1].at + 5

(***************************************************************************)
(* Properties of the server                                                *)
(***************************************************************************)
RevealsOf(store, stake) == RecordOf(store, stake).reveals

\* C1: a reveal for a variant of which the computed holdings of the
\* normalised stake address count none is answered not_holder and leaves the
\* wallet store as it was; so every step that adds a variant key to a reveal
\* list is the answer to a reveal for that address and that variant whose
\* computed count was at least 1.  (A reveal answered 500 has computed no
\* holdings: a call of the provider failed before the count was known.)
C1_RevealNeedsHolding ==
  [][ /\ (/\ last' # last
          /\ last'.kind = "reveal"
          /\ last'.resp.status # 500
          /\ last'.variantKey \in DOMAIN last'.tallies
          /\ last'.tallies[last'.variantKey].count = 0) =>
           /\ last'.resp = Resp(403, "not_holder")
           /\ db' = db
      /\ \A s \in DOMAIN db', k \in KeyInputs :
           (InSeq(k, RevealsOf(db', s)) /\ ~InSeq(k, RevealsOf(db, s))) =>
             /\ last'.kind = "reveal"
             /\ last'.stake = s
             /\ last'.variantKey = k
             /\ ~NotHolder(last'.tallies, k)
             /\ last'.resp.status = 200 ]_vars

\* the first copy of the route has recorded a reveal of variant B for a
\* wallet that holds A_7 only, without looking at the holdings
C1_RevealedUnheld ==
  /\ last.kind = "reveal"
  /\ last.stake = SK1
  /\ last.variantKey = KeyB
  /\ last.tallies = EmptyBag
  /\ last.fetched = 0 /\ ~last.hit
  /\ last.resp.status = 200
  /\ InSeq(KeyB, RevealsOf(db, SK1))
  /\ provRows[SK1] = ListOne

\* this step starts a request in slot r
StartStep(r) == CanStart(r) /\ started' = started + 1

\* the request of slot r after the step: still in the slot, or answered
Seen(r) == IF req'[r].pc # "idle" THEN req'[r] ELSE last'

\* the request of slot r has passed the checks that precede the lookup
Admitted(r) ==
  /\ Seen(r).stake # <<>>
  /\ Seen(r).kind = "holdings" \/ HasVariant(variants, Seen(r).variantKey)

\* this step receives the last page of the listing that slot r waits for
ListingDone(r) ==
  /\ req[r].pc = "page"
  /\ req'[r].pc = "info" \/ (req'[r].pc = "idle" /\ last'.resp.status # 500)

\* the listing slot r has received with this step is the cache entry
Stored(r) ==
  LET rows == req[r].rows \o req[r].inflight IN
    /\ req[r].stake \in DOMAIN accCache'
    /\ accCache'[req[r].stake] = [rows |-> rows, stale |-> FALSE]
    /\ Seen(r).units = PolicyUnits(rows, POLICY_ID)

\* C4: a lookup with force set always asks the provider for the listing,
\* whether or not the cache holds an unexpired entry for the stake address; it
\* leaves the cache as it is while the listing is fetched; and when the
\* listing has arrived it is the cache entry, unexpired.
C4_ForceRefetches ==
  /\ [](\A r \in Slots : req[r].force /\ req[r].pc # "idle" =>
                            ~req[r].hit /\ req[r].fetched >= 1)
  /\ [](last.force /\ last.resp.status = 200 => ~last.hit /\ last.fetched >= 1)
  /\ [][ \A r \in Slots :
           /\ (StartStep(r) /\ Seen(r).force /\ Admitted(r)) =>
                /\ req'[r].pc = "page"
                /\ req'[r].inflight = ProviderPage(provRows[req'[r].stake], 1)
                /\ accCache' = accCache
           /\ (ListingDone(r) /\ req[r].force) => Stored(r) ]_vars

\* a forced lookup has found an unexpired entry and has replaced it by a
\* listing that differs from it
C4_EntryReplaced ==
  /\ last.kind = "holdings"
  /\ last.force
  /\ last.resp.status = 200
  /\ last.old.had
  /\ Fresh(accCache, last.stake)
  /\ accCache[last.stake].rows # last.old.rows
  /\ last.units = PolicyUnits(accCache[last.stake].rows, POLICY_ID)

\* C5: a lookup without force that finds an unexpired entry for the stake
\* address, be it an empty listing, answers that listing and does not ask the
\* provider; one that finds no entry or an expired one asks the provider, and
\* the listing that arrives is stored; so as long as the provider has not
\* changed and nothing has expired, every lookup answers the same units.
C5_CacheServes ==
  /\ [](events = 0 =>
          /\ last.resp.status \in {200, 403} =>
               last.units = PolicyUnits(provRows[last.stake], POLICY_ID)
          /\ \A r \in Slots : req[r].pc = "info" =>
               req[r].units = PolicyUnits(provRows[req[r].stake], POLICY_ID))
  /\ [][ \A r \in Slots :
           /\ (StartStep(r) /\ ~Seen(r).force /\ Admitted(r)) =>
                IF Fresh(accCache, Seen(r).stake)
                  THEN /\ Seen(r).hit
                       /\ Seen(r).fetched = 0
                       /\ Seen(r).units =
                            PolicyUnits(accCache[Seen(r).stake].rows, POLICY_ID)
                       /\ accCache' = accCache
                  ELSE /\ req'[r].pc = "page"
                       /\ ~req'[r].hit
                       /\ req'[r].fetched = 1
                       /\ req'[r].inflight = ProviderPage(provRows[req'[r].stake], 1)
           /\ (ListingDone(r) /\ ~req[r].force) => Stored(r) ]_vars

\* a lookup without force has been answered from an entry that holds an
\* empty listing
C5_EmptyEntryServed ==
  /\ ~last.force
  /\ last.hit
  /\ last.fetched = 0
  /\ last.resp.status = 200
  /\ last.old = [had |-> TRUE, rows |-> <<>>]
  /\ last.units = <<>>

(***************************************************************************)
(* Decoding of an address, to state what the encoding has to give back     *)
(***************************************************************************)
\* the place of the separator: the last "1" of the text, 0 if there is none
SeparatorAt(text) ==
  LET ones == {i \in 1..Len(text) : text[i] = "1"}
  IN  IF ones = {} THEN 0 ELSE CHOOSE i \in ones : \A j \in ones : j <= i

WordOf(c) == (CHOOSE i \in 1..32 : Bech32Alphabet[i] = c) - 1

\* regroup 5-bit words into bytes; the bits left over are padding
RECURSIVE FromWords(_, _, _, _, _)
FromWords(words, i, value, bits, out) ==
  IF i > Len(words) \/ value < 0 \/ Len(out) < 0 THEN out
  ELSE LET v == value * 32 + words[i]
           b == bits + 5
       IN  IF b >= 8
             THEN FromWords(words, i + 1, v % Pow2(b - 8), b - 8,
                            Append(out, v \div Pow2(b - 8)))
             ELSE FromWords(words, i + 1, v, b, out)

Bech32Decode(text) ==
  LET sep == SeparatorAt(text) IN
  IF sep < 2 \/ Len(text) < sep + 6
       \/ \E i \in (sep + 1)..Len(text) :
            \A j \in 1..32 : Bech32Alphabet[j] # text[i]
    THEN [valid |-> FALSE, prefix |-> <<>>, bytes |-> <<>>]
  ELSE LET prefix == SubSeq(text, 1, sep - 1)
           words  == [i \in 1..(Len(text) - sep) |-> WordOf(text[sep + i])]
       IN  [valid  |-> WordsChk(words, 1, prefixChk(prefix)) = 1,
            prefix |-> prefix,
            bytes  |-> FromWords(SubSeq(words, 1, Len(words) - 6), 1, 0, 0, <<>>)]

\* the identifier is a stake key hash in hex
IsKeyHash(text) == isHex(text) /\ Len(BufferFromHex(text)) = 28

\* C11: for a 28-byte stake key hash in hex and either network id,
\* toStakeAddress calls no provider and answers the bech32 text, under the
\* prefix stake on network 1 and stake_test otherwise, of the header byte
\* 14 * 16 + (network id mod 16) followed by the hash; decoding the answer
\* gives back that header and the 28 bytes, so the answers for two different
\* hashes differ.
C11_KeyHashEncoding ==
  (cPc \in {"once", "twice"} /\ IsKeyHash(cIn)) =>
    LET d == Bech32Decode(cOut.val) IN
      /\ cOut.tag = "ok"
      /\ cOut.calls = 0
      /\ d.valid
      /\ d.prefix = IF NETWORK_ID = 1 THEN PfxStake ELSE PfxStakeTest
      /\ d.bytes = <<14 * 16 + (NETWORK_ID % 16)>> \o BufferFromHex(cIn)
      /\ \A other \in CodecInputs :
           (IsKeyHash(other) /\ BufferFromHex(other) # BufferFromHex(cIn)) =>
             AddressForm(other, NETWORK_ID).val # cOut.val

\* the hash K2 in upper-case hex on the test network
C11_UpperCaseOnTestnet ==
  /\ cPc = "once"
  /\ NETWORK_ID = 0
  /\ cIn = toUpperCase(HexOfBytes(K2))
  /\ cOut = RetOk(StakeTest(K2), 0)
  /\ Bech32Decode(cOut.val).bytes = <<224>> \o K2

(***************************************************************************)
(* The wallet store under requests that interleave                         *)
(***************************************************************************)
\* a step in which a handler sends its answer (last' is what it answered)
Answers ==
  \/ \E r \in Slots : StartStep(r) /\ req'[r].pc = "idle"
  \/ \E r \in Slots : req[r].pc # "idle" /\ req'[r].pc = "idle"

NoDuplicates(list) ==
  \A i, j \in 1..Len(list) : list[i] = list[j] => i = j

\* C12: no reveal list of the wallet store ever holds a variant key twice,
\* and a reveal of a key the wallet's list already has leaves every list of
\* the store as it was and answers with that list.
C12_RevealsAreASet ==
  /\ [](\A s \in DOMAIN db : NoDuplicates(db[s].reveals))
  /\ [][(/\ Answers
         /\ last'.kind = "reveal"
         /\ last'.resp.status = 200
         /\ InSeq(last'.variantKey, RevealsOf(db, last'.stake))) =>
           /\ \A s \in DOMAIN db' : RevealsOf(db', s) = RevealsOf(db, s)
           /\ last'.resp.reveals = RevealsOf(db, last'.stake)]_vars

\* the second of two reveals of the same held variant has been answered
C12_RevealedAgain ==
  /\ last.kind = "reveal"
  /\ last.resp.status = 200
  /\ last.known
  /\ last.variantKey = KeyA
  /\ RevealsOf(db, last.stake) = <<KeyA>>
  /\ last.resp.reveals = <<KeyA>>

\* the key names a catalog variant when letter case is ignored
NamesVariant(catalog, variantKey) ==
  \E i \in 1..Len(catalog) : toUpperCase(catalog[i].key) = toUpperCase(variantKey)

\* C13: GET /assets and POST /reveal asked with a variant key that differs
\* from a catalog key in letter case only find that catalog variant: they
\* do not answer unknown_variant.
C13_KeysIgnoreCase ==
  (last.kind \in {"assets", "reveal"} /\ NamesVariant(variants, last.variantKey)) =>
    last.resp.error # "unknown_variant"

\* a reveal of 'a' with the catalog key 'A' has been answered unknown_variant
C13_LowerCaseKeyUnknown ==
  /\ last.kind = "reveal"
  /\ last.variantKey = toLowerCase(KeyA)
  /\ HasVariant(variants, KeyA)
  /\ last.resp.status = 404
  /\ last.resp.error = "unknown_variant"

\* the unit whose metadata request r is waiting for
AwaitedUnit(r) == req[r].units[req[r].i]

\* C14: two requests never wait at the same time for the metadata of one
\* unit: while a getAssetInfo call for a unit is in flight, a second request
\* that needs that unit issues no provider call of its own.
C14_OneFetchPerUnit ==
  \A r1, r2 \in Slots :
    (r1 # r2 /\ req[r1].pc = "info" /\ req[r2].pc = "info") =>
      AwaitedUnit(r1) # AwaitedUnit(r2)

\* both requests have called the provider for the same unit, which is not in
\* the metadata cache yet
C14_TwoFetchesInFlight ==
  /\ req[1].pc = "info"
  /\ req[2].pc = "info"
  /\ AwaitedUnit(1) = AssetA7.asset
  /\ AwaitedUnit(2) = AssetA7.asset
  /\ AssetA7.asset \notin DOMAIN infoCache

(***************************************************************************)
(* The pages of the account listing                                        *)
(***************************************************************************)
\* the handler in slot r ended on a rejected provider call
Rejected(r) == req'[r].pc = "idle" /\ last'.resp.status = 500

\* C15: a listing that has to be fetched is asked page by page, 1, 2, 3, ...
\* with 100 rows a page; a full page is followed by the request of the next
\* page, the first page of fewer than 100 rows ends the listing, no page is
\* asked after it, and accCache gets the pages concatenated in the order
\* they were asked; the step that receives the short page is the one that
\* leaves the loop, and the pages asked never outnumber what the longest
\* listing of the provider needs.
C15_PagesInOrder ==
  /\ [](\A r \in Slots : req[r].pc = "page" =>
          /\ req[r].page >= 1
          /\ req[r].fetched = req[r].page
          /\ Len(req[r].rows) = PageSize * (req[r].page - 1)
          /\ Len(req[r].inflight) <= PageSize
          /\ \E l \in Listings : PageSize * (req[r].page - 1) <= Len(l))
  /\ [][\A r \in Slots :
          /\ (req[r].pc = "page" /\ req'[r].pc = "page" /\ req'[r] # req[r]) =>
               /\ Len(req[r].inflight) = PageSize
               /\ req'[r].page = req[r].page + 1
               /\ req'[r].rows = req[r].rows \o req[r].inflight
               /\ req'[r].inflight = ProviderPage(provRows[req[r].stake], req'[r].page)
               /\ accCache' = accCache
          /\ (req[r].pc = "page" /\ req'[r].pc # "page" /\ ~Rejected(r)) =>
               /\ Len(req[r].inflight) < PageSize
               /\ Seen(r).fetched = req[r].page
               /\ Fresh(accCache', req[r].stake)
               /\ accCache'[req[r].stake].rows = req[r].rows \o req[r].inflight]_vars

\* a listing of 101 rows has been fetched in two pages and cached whole
C15_TwoPagesCached ==
  /\ last.resp.status = 200
  /\ ~last.hit
  /\ last.fetched = 2
  /\ Fresh(accCache, last.stake)
  /\ accCache[last.stake].rows = ListLong

(***************************************************************************)
(* What computeHoldings counts and what it returns                         *)
(***************************************************************************)
\* the places of the unit list whose asset matches variant k
MatchesOf(k) ==
  {i \in 1..Len(tUnits) : MatchVariant(k, UnitInfo(i), UnitLocal(i))}

\* C16: every catalog variant is matched on its own: the count of a variant
\* is the number of units that match it, whatever other variants the same
\* units match, so a unit that matches two variants counts once for each and
\* no count is larger than the number of units.
C16_MatchedIndependently ==
  tPc \in {"tallied", "listed"} =>
    \A k \in CatalogKeys(variants) :
      /\ tOut.tallies[k].count = Cardinality(MatchesOf(k))
      /\ tOut.tallies[k].count <= Len(tUnits)

\* the one asset 'A_3' with slot B gives a count of 1 to A and to B
C16_CountedForBoth ==
  /\ tPc = "tallied"
  /\ tUnits = <<AssetA3.asset>>
  /\ NAME_INDEX = NoIndex
  /\ tOut.tallies[KeyA].count = 1
  /\ tOut.tallies[KeyB].count = 1

\* the unit at place i matches at least one catalog variant
MatchesAny(i) == \E k \in CatalogKeys(variants) : i \in MatchesOf(k)

\* C17: the units computeHoldings returns are the units that matched at
\* least one catalog variant, no more and no less: a unit that matches no
\* variant is in no tally and not among the returned units.
C17_UnitsAreMatched ==
  tPc \in {"tallied", "listed"} =>
    /\ \A i \in 1..Len(tUnits) : InSeq(tUnits[i], tOut.units) <=> MatchesAny(i)
    /\ \A j \in 1..Len(tOut.units) : InSeq(tOut.units[j], tUnits)

\* the one asset 'x' matches no variant, counts nowhere and is returned
C17_UnmatchedReturned ==
  /\ tPc = "tallied"
  /\ tUnits = <<AssetNone.asset>>
  /\ \A k \in CatalogKeys(variants) : tOut.tallies[k].count = 0
  /\ tOut.units = <<AssetNone.asset>>

(***************************************************************************)
(* A provider call for a listing page that is rejected                     *)
(***************************************************************************)
\* C18: when the provider rejects a call for a listing page, the handler
\* asks no page again and answers with an error (500); that step changes
\* neither accCache nor the wallet store, and neither did the steps of the
\* request before it: up to the failure the request has left the entry of
\* its stake as accCache.get answers it, every other entry and the store
\* untouched, so no part of the listing is cached and no wallet record is
\* made or written.
C18_PageFailureLeavesNoTrace ==
  [][\A r \in Slots :
       /\ (req[r].pc = "page" /\ ProviderFails(r)) =>
            /\ accCache' = accCache
            /\ db' = db
            /\ req'[r].pc = "idle"
            /\ last'.resp.status = 500
            /\ last'.stake = req[r].stake
            /\ last'.fetched = req[r].fetched
       /\ (req[r].pc = "page" /\ req'[r].pc = "page" /\ req'[r] # req[r]) =>
            /\ accCache' = accCache
            /\ db' = db
       /\ (StartStep(r) /\ req'[r].pc = "page") =>
            /\ db' = db
            /\ EntryOf(accCache', req'[r].stake) = EntryOf(accCache, req'[r].stake)
            /\ \A s \in DOMAIN accCache \ {req'[r].stake} :
                 s \in DOMAIN accCache' /\ accCache'[s] = accCache[s]]_vars

\* the call for the second page of a listing was rejected: the request was
\* answered 500, the first page is not in accCache and the store has no
\* record of the stake
C18_SecondPageFailed ==
  /\ last.kind \in {"holdings", "reveal"}
  /\ last.resp.status = 500
  /\ last.fetched = 2
  /\ last.units = <<>>
  /\ last.stake \notin DOMAIN accCache
  /\ last.stake \notin DOMAIN db

\* list a is the beginning of list b
IsPrefix(a, b) == Len(a) <= Len(b) /\ SubSeq(b, 1, Len(a)) = a

\* C19: whatever the interleaving of holdings and reveal requests, no write
\* of the wallet store undoes another: a record never disappears and its
\* reveal list only grows at its end, a reveal answered 200 has its key in
\* the list of its wallet in the state it leaves (hence in every later
\* state), and a step that answers a holdings query changes no reveal list.
C19_StoreUpdatesKept ==
  [][/\ \A s \in DOMAIN db :
          s \in DOMAIN db' /\ IsPrefix(db[s].reveals, db'[s].reveals)
     /\ (Answers /\ last'.kind = "reveal" /\ last'.resp.status = 200) =>
          InSeq(last'.variantKey, RevealsOf(db', last'.stake))
     /\ (Answers /\ last'.kind = "holdings") =>
          \A s \in DOMAIN db \cup DOMAIN db' : RevealsOf(db', s) = RevealsOf(db, s)]_vars

\* a reveal was answered while a holdings query for the same wallet was
\* waiting for the provider; the query then answered, the reveal is kept
C19_RevealKeptByHoldings ==
  /\ started = 2
  /\ events = 0
  /\ last.kind = "holdings"
  /\ last.resp.status = 200
  /\ ~last.hit
  /\ ~last.force
  /\ RevealsOf(db, last.stake) = <<KeyA>>
  /\ \E i \in 1..Len(last.resp.variants) :
       last.resp.variants[i].key = KeyA /\ last.resp.variants[i].revealed

(***************************************************************************)
(* What the wallet store can hold                                          *)
(***************************************************************************)
\* the text is what toStakeAddress answers for an identifier of a request
IsNormalized(text) ==
  \E raw \in RawInputs :
    LET norm == toStakeAddress(raw, NETWORK_ID, provAddr)
    IN  norm.tag = "ok" /\ norm.val = text

\* C20: every key of every reveal list in the wallet store is a catalog key
\* and every record is kept under a stake address that toStakeAddress
\* answered, never under an identifier as it was sent; a reveal whose
\* variant key is not in the catalog is answered unknown_variant (404), a
\* reveal or holdings query whose identifier normalizes to null is answered
\* bad_address (400), and neither of the two writes the store.
C20_StoreHoldsValidKeys ==
  /\ [](\A s \in DOMAIN db :
          /\ IsNormalized(s)
          /\ StartsWith(s, Stake1)
          /\ \A i \in 1..Len(db[s].reveals) :
               db[s].reveals[i] \in CatalogKeys(variants))
  /\ [][Answers =>
          /\ (/\ last'.kind = "reveal"
              /\ last'.stake # <<>>
              /\ last'.variantKey \notin CatalogKeys(variants)) =>
                /\ last'.resp = Resp(404, "unknown_variant")
                /\ db' = db
          /\ (/\ last'.kind \in {"reveal", "holdings"}
              /\ last'.raw # <<>>
              /\ last'.kind = "reveal" => last'.variantKey # <<>>
              /\ toStakeAddress(last'.raw, NETWORK_ID, provAddr).tag = "null") =>
                /\ last'.resp = Resp(400, "bad_address")
                /\ db' = db]_vars

\* a reveal of a held variant was stored under the stake address of the hex
\* identifier it was sent with, then a reveal of the unknown key 'Z' for the
\* same wallet was refused
C20_UnknownKeyRefused ==
  /\ last.kind = "reveal"
  /\ last.variantKey = <<"Z">>
  /\ last.raw = HexK1
  /\ last.stake = SK1
  /\ last.resp = Resp(404, "unknown_variant")
  /\ DOMAIN db = {SK1}
  /\ db[SK1].reveals = <<KeyA>>

\* C21: the summary and the detail agree: over the same policy-filtered
\* unit list, the same metadata and the same local index, for every catalog
\* key the number of items GET /assets lists for the key is the count
\* computeHoldings reports for it, and the items are units of the list in
\* the order of the list.
C21_SummaryMatchesDetail ==
  tPc = "listed" =>
    \A k \in CatalogKeys(variants) :
      /\ Len(tItems[k]) = tOut.tallies[k].count
      /\ Len(tItems[k]) = tOut.summary[CHOOSE i \in 1..Len(variants) :
                                         variants[i].key = k].count
      /\ \A j \in 1..Len(tItems[k]) : InSeq(tItems[k][j].unit, tUnits)

\* with the local index loaded, 'N1' (row a, slot B) and 'B_2' (row A, prefix
\* B_) are listed and counted under both variants
C21_IndexedWalletAgrees ==
  /\ tPc = "listed"
  /\ NAME_INDEX = IndexFile
  /\ tUnits = <<AssetN1.asset, AssetB2.asset>>
  /\ tOut.tallies[KeyA].count = 2
  /\ Len(tItems[KeyA]) = 2
  /\ tOut.tallies[KeyB].count = 2
  /\ Len(tItems[KeyB]) = 2

====
